---- MODULE Spec2Model ----
(***************************************************************************)
(* Connection and session manager of the Twitch chat overlay: the OAuth    *)
(* callback listener, the credential store and the token refresh timer     *)
(* (src/main/services/oauthServer.js), the chat session                    *)
(* (twitchChatService.js) and the IPC coordinator (main/index.js); beside   *)
(* them the emote cache (sevenTvService.js) and the message list of the    *)
(* chat view (ChatPage.jsx), each with a specification of its own.         *)
(*                                                                         *)
(* The main process is single threaded: every action below is one run of   *)
(* the event loop, from the event that wakes a handler up to the next      *)
(* await that leaves it suspended at a network call.  The renderer, the    *)
(* browser, the identity provider and the chat server are the environment: *)
(* their requests and answers arrive in any order.                         *)
(***************************************************************************)
EXTENDS Integers, Sequences, FiniteSets, TLC

\* ------------------------------------------------------------------ bounds
\* A run takes at most MaxInputs inputs from outside: requests of the
\* renderer, requests to the callback listener, ticks of the refresh
\* interval, reconnections of a tmi client.  The answers to the network
\* calls the program makes are not counted.
MaxInputs == 4
MaxRequests == 2
MaxTicks == 2
MaxConnects == 2
MaxSaying == 1
\* The chat view takes at most MaxArrivals lines in a run, the emote service
\* makes at most MaxFetches channel fetches.
MaxArrivals == 303
MaxFetches == 3

\* ------------------------------------------------------------- constants
NULL == 0
NoName == "null"
UserNames == {"alice"}

NoChannel == "null"
Channels == {"Foo", "bar"}

Requests == 1..MaxRequests
Ticks == 1..MaxTicks
Connects == 1..MaxConnects

\* The identity provider numbers its successful exchanges; exchange ex hands
\* out the token pair <<AccessTok(ex), RefreshTok(ex)>>.
AccessTok(ex) == 2 * ex
RefreshTok(ex) == 2 * ex + 1

VARIABLES
  windowOpen,          \* index.js mainWindow is set (the window is not destroyed)
  currentAuthDetails,  \* NULL or the index in authObjs of the stored credential
  authObjs,            \* the credential objects created so far
  server,              \* NULL or the index in servers of the http server
  servers,             \* servers[s]: server s is listening
  refreshIntervalId,   \* NULL or the index in timers of the interval
  timers,              \* timers[i]: interval i has not been cleared
  nextEx,              \* the next exchange number of the identity provider
  req,                 \* the requests to the callback listener
  tick,                \* the ticks of the refresh interval
  conn,                \* the connect-to-twitch requests
  clients,             \* the tmi clients created so far
  twitchClient,        \* NULL or the index in clients of the shared client
  currentChannel,      \* NoChannel or the channel of the shared client
  saying,              \* the say() calls of sendMessage that have not settled
  nInputs,             \* the inputs taken so far
  storedEx,            \* the exchange whose token pair the store holds, 0 if none
  expired,             \* NULL or the client that was the open session when the
                       \* credential was last cleared
  last                 \* the last run of the event loop: its handler, the
                       \* handler's number, its input, and what it sent out

\* The chat view of the renderer (ChatPage.jsx).
VARIABLES
  authenticatedUsername,  \* the prop the page was mounted with
  messages,            \* the displayed list
  isConnected,
  isConnecting,
  arrived,             \* the lines made so far; a line is the number of its arrival
  held                 \* the lines put into the list since it was last replaced

\* The emote cache of the main process (sevenTvService.js).
VARIABLES
  globalSevenTvEmotes,   \* the global emotes, << >> until they are fetched
  globalFetch,           \* the position of fetchGlobalEmotes
  channelSevenTvEmotes,  \* the Map of the channels' emotes, in insertion order
  fetch,                 \* the calls of fetchChannelEmotes
  fetched,               \* the call that came to its end last, 0 if none
  emoteUpdate            \* the channel emotes the renderer was given last

rendererVars == <<authenticatedUsername, messages, isConnected, isConnecting,
                  arrived, held>>
emoteVars == <<globalSevenTvEmotes, globalFetch, channelSevenTvEmotes, fetch,
               fetched, emoteUpdate>>

authVars == <<currentAuthDetails, authObjs, server, servers, refreshIntervalId,
              timers, nextEx, req, tick, storedEx>>
chatVars == <<conn, clients, twitchClient, currentChannel, saying>>
mainVars == <<windowOpen, authVars, chatVars, nInputs, expired, last>>
vars == <<mainVars, rendererVars, emoteVars>>

\* A handler that has not started; one that has returned is the same with
\* pc "done".
NoRequest == [pc |-> "none", ex |-> 0, srv |-> NULL]
\* A tick keeps the refresh token it sent and which object it read it from.
NoTick == [pc |-> "none", sentRT |-> 0, auth |-> NULL]
NoConnect == [pc |-> "none", chan |-> NoChannel, auth |-> NULL]

Done(h) == [h EXCEPT !.pc = "done"]

Ran(op, id, arg, sent) == [op |-> op, id |-> id, arg |-> arg, sent |-> sent]

\* The main process after createWindow.
MainInit ==
  /\ windowOpen = TRUE
  /\ currentAuthDetails = NULL
  /\ authObjs = << >>
  /\ server = NULL
  /\ servers = << >>
  /\ refreshIntervalId = NULL
  /\ timers = << >>
  /\ nextEx = 1
  /\ req = [r \in Requests |-> NoRequest]
  /\ tick = [t \in Ticks |-> NoTick]
  /\ conn = [k \in Connects |-> NoConnect]
  /\ clients = << >>
  /\ twitchClient = NULL
  /\ currentChannel = NoChannel
  /\ saying = 0
  /\ nInputs = 0
  /\ storedEx = 0
  /\ expired = NULL
  /\ last = Ran("createWindow", 0, "none", << >>)

\* A line of the chat view is the number of its arrival; the line the page
\* starts with is number 0.
InitialMessage == 0

\* ChatPage as it is mounted (ChatPage.jsx 34-54); name is the name the
\* login returned, NoName when it returned none.
MountedChatPage(name) ==
  /\ authenticatedUsername = name
  /\ messages = <<InitialMessage>>
  /\ isConnected = FALSE
  /\ isConnecting = FALSE
  /\ arrived = 0
  /\ held = 1

\* The channels' ids at the provider, and the calls of fetchChannelEmotes.
NoId == "null"
TwitchIds == {"id1", "id2"}
Fetches == 1..MaxFetches
NoFetch == [pc |-> "none", id |-> NoId, outcome |-> "none"]

\* Nothing was sent to the renderer yet.
NoUpdate == [via |-> "none", channelEmotes |-> << >>]

\* sevenTvService after initialize() (sevenTvService.js 6-7, 19-24): the
\* caches are empty and the fetch of the global emotes is under way.
EmoteInit ==
  /\ globalSevenTvEmotes = << >>
  /\ globalFetch = "fetching"
  /\ channelSevenTvEmotes = << >>
  /\ fetch = [f \in Fetches |-> NoFetch]
  /\ fetched = 0
  /\ emoteUpdate = NoUpdate

Init == MainInit /\ MountedChatPage(NoName) /\ EmoteInit

\* What a step of one part leaves alone.
MainIdle == UNCHANGED mainVars
RendererIdle == UNCHANGED rendererVars
EmoteIdle == UNCHANGED emoteVars
MainOnly == RendererIdle /\ EmoteIdle

\* Handler runs are numbered in the order in which they start.
InOrder(f, i) == IF i = 1 THEN TRUE ELSE f[i - 1].pc # "none"

\* One more input from outside.
Input ==
  /\ nInputs < MaxInputs
  /\ nInputs' = nInputs + 1

\* What a run sends out: a connection-status or an oauth-status event to the
\* renderer, a call of one of index.js's two callbacks, an http response.
Status(status, channel, why) == <<"connection-status", status, channel, why>>
OAuthStatus(result) == <<"oauth-status", result>>
Callback(name) == <<name>>
Response(code) == <<"http", code>>
\* A system line for the chat view, and the value an async function's
\* promise resolves to.
ChatMessage(text) == <<"chat-message", text>>
Returned(value) == <<"return", value>>
\* The system line that goes with a refused connect request (index.js
\* 129-134, twitchChatService.js 608-613).
AuthRequiredLine ==
  <<"chat-message", "System", "Connection failed: Please authenticate with Twitch first.",
    "#FF0000", TRUE>>

Count(sent, ev) == Cardinality({i \in DOMAIN sent : sent[i] = ev})

\* ------------------------------------------------- callback listener state
\* server && server.listening
ServerListening(srvs, s) == s # NULL /\ srvs[s]

StartedServers_Always(srvs, s) == Append(srvs, TRUE)

\* startOAuthServer: a second server is created only when none is listening.
StartedServers(srvs, s) ==
  IF ServerListening(srvs, s) THEN srvs ELSE Append(srvs, TRUE)

StartedServer(srvs, s) ==
  IF ServerListening(srvs, s) THEN s ELSE Len(srvs) + 1

StoppedServers_Never(srvs, s) == srvs

\* stopOAuthServer: closes the server the module variable names, if listening.
StoppedServers(srvs, s) ==
  IF ServerListening(srvs, s) THEN [srvs EXCEPT ![s] = FALSE] ELSE srvs

\* ------------------------------------------------------ refresh timer state
StartedTimers_Always(tms, id) == Append(tms, TRUE)

\* startTokenAutoRefresh: no second interval while refreshIntervalId is set.
StartedTimers(tms, id) == IF id # NULL THEN tms ELSE Append(tms, TRUE)

StartedTimerId(tms, id) == IF id # NULL THEN id ELSE Len(tms) + 1

StoppedTimers_Never(tms, id) == tms

\* stopTokenAutoRefresh: clearInterval(refreshIntervalId), then null.
StoppedTimers(tms, id) == IF id # NULL THEN [tms EXCEPT ![id] = FALSE] ELSE tms

\* ------------------------------------------------------- credential store
NewAuthDetails_Mixed(ex, name) ==
  [token |-> AccessTok(ex), username |-> name, refreshToken |-> RefreshTok(ex + 1)]

\* The object a successful authorization stores (oauthServer.js 155-159).
NewAuthDetails(ex, name) ==
  [token |-> AccessTok(ex), username |-> name, refreshToken |-> RefreshTok(ex)]

RefreshedDetails_TokenOnly(obj, ex) == [obj EXCEPT !.token = AccessTok(ex)]

\* The in-place update of a successful refresh (oauthServer.js 259-260).
RefreshedDetails(obj, ex) ==
  [obj EXCEPT !.token = AccessTok(ex), !.refreshToken = RefreshTok(ex)]

\* !currentAuthDetails || !currentAuthDetails.refreshToken
NoRefreshToken(objs, cur) == cur = NULL \/ objs[cur].refreshToken = NULL

\* A credential object lives as long as the store or a connect handler that
\* was handed it (index.js 103) refers to it; the content of an object
\* nothing refers to is forgotten.
Unreachable == [token |-> NULL, username |-> NoName, refreshToken |-> NULL]

Collected(objs, cur, cn) ==
  [i \in DOMAIN objs |->
     IF i = cur \/ \E k \in DOMAIN cn : cn[k].auth = i THEN objs[i] ELSE Unreachable]

\* ------------------------------------------------------------ chat session
ClientIds == 1..Len(clients)

\* twitchClient && twitchClient.readyState() === "OPEN"
SessionOpen == twitchClient # NULL /\ clients[twitchClient].state = "OPEN"

ClearStore_Keeps ==
  UNCHANGED <<currentAuthDetails, storedEx, authObjs, expired>>

\* Every place that resets the store (oauthServer.js 57, 181, 271, 336).
ClearStore ==
  /\ currentAuthDetails' = NULL
  /\ storedEx' = 0
  /\ authObjs' = Collected(authObjs, NULL, conn)
  /\ expired' = IF currentAuthDetails # NULL /\ SessionOpen
                  THEN twitchClient ELSE expired

OnFailure_KeepsTimer ==
  /\ ClearStore
  /\ UNCHANGED <<timers, refreshIntervalId>>

\* The failure callback (index.js 87-95): clear the store, stop the timer,
\* tell the renderer; with the window gone mainWindow is null and the send
\* throws.
OnFailure ==
  /\ ClearStore
  /\ timers' = StoppedTimers(timers, refreshIntervalId)
  /\ refreshIntervalId' = NULL

FailureSent(alive) ==
  IF alive THEN <<Callback("onOAuthFailureCallback"), OAuthStatus("failure")>>
           ELSE <<Callback("onOAuthFailureCallback")>>

\* The response that follows a callback is written only if the callback
\* returned.
Answered(alive, code) == IF alive THEN <<Response(code)>> ELSE << >>

\* ------------------------------------------------------------ login flow
\* ipcMain.on("start-oauth-flow") (index.js 176-209): opens the browser,
\* starts the listener.
StartOAuthFlow ==
  /\ windowOpen
  /\ Input
  /\ servers' = StartedServers(servers, server)
  /\ server' = StartedServer(servers, server)
  /\ last' = Ran("StartOAuthFlow", 0, "none", << >>)
  /\ UNCHANGED <<windowOpen, currentAuthDetails, authObjs, refreshIntervalId,
                 timers, nextEx, req, tick, storedEx, chatVars, expired>>

\* A request reaches the listener only while a server is listening.
Arrives(r) ==
  /\ req[r].pc = "none"
  /\ InOrder(req, r)
  /\ \E s \in DOMAIN servers : servers[s]
  /\ Input

\* The request carries an error parameter (oauthServer.js 54-66): the store
\* is reset, the failure callback runs, the browser gets a 302; the server
\* is not closed.
HttpErrorRequest(r) ==
  /\ Arrives(r)
  /\ OnFailure
  /\ req' = [req EXCEPT ![r] = Done(NoRequest)]
  /\ last' = Ran("HttpErrorRequest", r, "error",
                 FailureSent(windowOpen) \o Answered(windowOpen, 302))
  /\ UNCHANGED <<windowOpen, server, servers, nextEx, tick, chatVars>>

\* The request carries a code (oauthServer.js 69-86): the handler is
\* suspended at the token exchange.
HttpCodeRequest(r) ==
  /\ Arrives(r)
  /\ req' = [req EXCEPT ![r] = [@ EXCEPT !.pc = "exchange", !.srv = server]]
  /\ last' = Ran("HttpCodeRequest", r, "code", << >>)
  /\ UNCHANGED <<windowOpen, currentAuthDetails, authObjs, server, servers,
                 refreshIntervalId, timers, nextEx, tick, storedEx, chatVars,
                 expired>>

HttpOtherRequest_Stops(r) ==
  /\ Arrives(r)
  /\ servers' = StoppedServers(servers, server)
  /\ req' = [req EXCEPT ![r] = Done(NoRequest)]
  /\ last' = Ran("HttpOtherRequest", r, "neither", <<Response(400)>>)
  /\ UNCHANGED <<windowOpen, currentAuthDetails, authObjs, server,
                 refreshIntervalId, timers, nextEx, tick, storedEx, chatVars,
                 expired>>

\* Neither parameter (oauthServer.js 202-206): a 400 and nothing else.
HttpOtherRequest(r) ==
  /\ Arrives(r)
  /\ req' = [req EXCEPT ![r] = Done(NoRequest)]
  /\ last' = Ran("HttpOtherRequest", r, "neither", <<Response(400)>>)
  /\ UNCHANGED <<windowOpen, currentAuthDetails, authObjs, server, servers,
                 refreshIntervalId, timers, nextEx, tick, storedEx, chatVars,
                 expired>>

\* catch and finally of the code branch (oauthServer.js 179-201): the store
\* is reset, the failure callback runs, the server is stopped.  before is
\* what the try block had sent out when it threw.
CodeFailure(r, op, arg, before) ==
  /\ OnFailure
  /\ servers' = StoppedServers(servers, server)
  /\ req' = [req EXCEPT ![r] = Done(NoRequest)]
  /\ last' = Ran(op, r, arg,
                 before \o FailureSent(windowOpen) \o Answered(windowOpen, 200))
  /\ UNCHANGED <<windowOpen, server>>

\* The token exchange answers (oauthServer.js 87-113).
TokenResponse(r, outcome) ==
  /\ req[r].pc = "exchange"
  /\ IF outcome = "ok"
       THEN /\ req' = [req EXCEPT ![r] = [@ EXCEPT !.pc = "userinfo",
                                                   !.ex = nextEx]]
            /\ nextEx' = nextEx + 1
            /\ last' = Ran("TokenResponse", r, outcome, << >>)
            /\ UNCHANGED <<windowOpen, currentAuthDetails, authObjs, server,
                           servers, refreshIntervalId, timers, storedEx, expired>>
       ELSE /\ CodeFailure(r, "TokenResponse", outcome, << >>)
            /\ UNCHANGED nextEx
  /\ UNCHANGED <<tick, chatVars, nInputs>>

\* The identity lookup answers (oauthServer.js 124-178, 198-201).  With a
\* 2xx answer the credential is stored and the success callback runs
\* (index.js 65-85): it tells the renderer, then starts the refresh timer.
\* With the window gone, mainWindow is null and the callback throws at its
\* first send, which lands in the handler's catch.
UserResponse(r, outcome) ==
  /\ req[r].pc = "userinfo"
  /\ IF outcome \in UserNames \cup {NoName} /\ windowOpen
       THEN /\ authObjs' = Collected(Append(authObjs, NewAuthDetails(req[r].ex, outcome)),
                                     Len(authObjs) + 1, conn)
            /\ currentAuthDetails' = Len(authObjs) + 1
            /\ storedEx' = req[r].ex
            /\ timers' = StartedTimers(timers, refreshIntervalId)
            /\ refreshIntervalId' = StartedTimerId(timers, refreshIntervalId)
            /\ servers' = StoppedServers(servers, server)
            /\ req' = [req EXCEPT ![r] = Done(NoRequest)]
            /\ last' = Ran("UserResponse", r, outcome,
                           <<Callback("onOAuthSuccessCallback"), OAuthStatus("success"),
                             Response(200)>>)
            /\ UNCHANGED <<windowOpen, server, expired>>
       ELSE CodeFailure(r, "UserResponse", outcome,
                        IF outcome \in UserNames \cup {NoName}
                          THEN <<Callback("onOAuthSuccessCallback")>> ELSE << >>)
  /\ UNCHANGED <<nextEx, tick, chatVars, nInputs>>

\* ---------------------------------------------------------- refresh timer
\* The interval fires (oauthServer.js 283-297, 225-244).  Without a refresh
\* token the interval stops itself; otherwise the refresh exchange is sent
\* with the refresh token the store holds now.
TimerTick(t) ==
  /\ tick[t].pc = "none"
  /\ InOrder(tick, t)
  /\ refreshIntervalId # NULL
  /\ timers[refreshIntervalId]
  /\ Input
  /\ IF NoRefreshToken(authObjs, currentAuthDetails)
       THEN /\ timers' = StoppedTimers(timers, refreshIntervalId)
            /\ refreshIntervalId' = NULL
            /\ tick' = [tick EXCEPT ![t] = Done(NoTick)]
            /\ last' = Ran("TimerTick", t, "norefresh", << >>)
       ELSE /\ tick' = [tick EXCEPT ![t] =
                          [@ EXCEPT !.pc = "refreshing",
                                    !.sentRT = authObjs[currentAuthDetails].refreshToken,
                                    !.auth = currentAuthDetails]]
            /\ last' = Ran("TimerTick", t, "refresh", << >>)
            /\ UNCHANGED <<timers, refreshIntervalId>>
  /\ UNCHANGED <<windowOpen, currentAuthDetails, authObjs, server, servers,
                 nextEx, req, storedEx, chatVars, expired>>

\* The refresh exchange answers (oauthServer.js 246-277, 293-296).  A 2xx
\* answer is written into whatever object the store holds now; with the
\* store reset in the meantime that write throws.  Every throw lands in the
\* catch: store reset, failure callback, rethrow to the tick, which stops
\* the timer.
RefreshResponse(t, outcome) ==
  /\ tick[t].pc = "refreshing"
  /\ IF outcome = "ok" /\ currentAuthDetails # NULL
       THEN /\ authObjs' = [authObjs EXCEPT ![currentAuthDetails] =
                              RefreshedDetails(@, nextEx)]
            /\ storedEx' = nextEx
            /\ last' = Ran("RefreshResponse", t, outcome, << >>)
            /\ UNCHANGED <<currentAuthDetails, timers, refreshIntervalId, expired>>
       ELSE /\ OnFailure
            /\ last' = Ran("RefreshResponse", t,
                           IF outcome = "ok" THEN "nostore" ELSE outcome,
                           FailureSent(windowOpen))
  /\ tick' = [tick EXCEPT ![t] = Done(NoTick)]
  /\ nextEx' = IF outcome = "ok" THEN nextEx + 1 ELSE nextEx
  /\ UNCHANGED <<windowOpen, server, servers, req, chatVars, nInputs>>

\* sendToRenderer (twitchChatService.js 426-430): nothing is sent to a
\* destroyed window.
ToRenderer(alive, ev) == IF alive THEN <<ev>> ELSE << >>

\* ------------------------------------------------------- connect handler
CredentialOk_TokenOnly(objs, a) == a # NULL /\ objs[a].token # NULL

\* authDetails && authDetails.token && authDetails.username
\* (index.js 105, twitchChatService.js 599).
CredentialOk(objs, a) ==
  a # NULL /\ objs[a].token # NULL /\ objs[a].username # NoName

ChannelExists_UnlessAbsent(outcome) == outcome # "absent"

\* doesChannelExist (twitchChatService.js 533-587): true only for a 2xx
\* answer that lists the user.
ChannelExists(outcome) == outcome = "found"

\* channelName.toLowerCase()
ToLowerCase(ch) == IF ch = "Foo" THEN "foo" ELSE ch

\* new tmi.Client(...) with its handlers, then connect()
\* (twitchChatService.js 646-681, 810).
NewClient(k, ch, tok) ==
  [state |-> "CONNECTING", chan |-> ch, token |-> tok, handlers |-> TRUE,
   connWaiter |-> k, closeWaiter |-> -1, closeCalled |-> FALSE]

\* A client that disconnect() closed: it never connects again and a
\* closed socket needs no login.
Closed(cl) ==
  [cl EXCEPT !.state = "CLOSED", !.chan = NoChannel, !.token = NULL,
             !.closeWaiter = -1]

Closing_KeepsHandlers(cl, owner) ==
  [cl EXCEPT !.state = "CLOSING", !.connWaiter = 0, !.closeWaiter = owner,
             !.closeCalled = TRUE]

\* removeAllListeners() and disconnect() on a client whose socket is not
\* closed (twitchChatService.js 831-832): the handlers and the pending
\* promises' listeners are gone, the socket is closing, owner waits.
Closing(cl, owner) ==
  [cl EXCEPT !.state = "CLOSING", !.handlers = FALSE, !.connWaiter = 0,
             !.closeWaiter = owner, !.closeCalled = TRUE]

\* The same on a client whose socket is closed: disconnect() rejects.
Unlistened(cl) ==
  [cl EXCEPT !.handlers = FALSE, !.connWaiter = 0, !.closeWaiter = -1]

\* connectToChannel up to its first await (twitchChatService.js 593-629),
\* run by connect request k with the credential object it was handed.
EnterConnectToChannel(k, op, arg) ==
  LET ch == conn[k].chan IN
  IF ~CredentialOk(authObjs, conn[k].auth)
    THEN /\ conn' = [conn EXCEPT ![k] = Done(NoConnect)]
         /\ last' = Ran(op, k, arg,
                        ToRenderer(windowOpen, Status("error", ch, "auth"))
                          \o ToRenderer(windowOpen, AuthRequiredLine))
         /\ UNCHANGED clients
    ELSE IF SessionOpen
      THEN /\ clients' = [clients EXCEPT ![twitchClient] = Closing(@, k)]
           /\ conn' = [conn EXCEPT ![k] = [@ EXCEPT !.pc = "disconnecting"]]
           /\ last' = Ran(op, k, arg, << >>)
      ELSE /\ conn' = [conn EXCEPT ![k] = [@ EXCEPT !.pc = "exists"]]
           /\ last' = Ran(op, k, arg,
                          ToRenderer(windowOpen, Status("connecting", ch, "verify")))
           /\ UNCHANGED clients

\* ipcMain.on("connect-to-twitch") up to its first await (index.js 99-110,
\* 120-135).
ConnectRequest(k, ch) ==
  /\ windowOpen
  /\ conn[k].pc = "none"
  /\ InOrder(conn, k)
  /\ Input
  /\ IF CredentialOk(authObjs, currentAuthDetails)
       THEN /\ conn' = [conn EXCEPT ![k] = [@ EXCEPT !.pc = "userId", !.chan = ch,
                                                     !.auth = currentAuthDetails]]
            /\ last' = Ran("ConnectRequest", k, ch, << >>)
       ELSE /\ conn' = [conn EXCEPT ![k] = Done(NoConnect)]
            /\ last' = Ran("ConnectRequest", k, ch,
                           <<Status("error", ch, "auth"), AuthRequiredLine>>)
  /\ UNCHANGED <<windowOpen, authVars, saying, clients, twitchClient, currentChannel,
                 expired>>

UserIdResponse_FailsConnect(k, found) ==
  /\ conn[k].pc = "userId"
  /\ IF found
       THEN /\ conn' = [conn EXCEPT ![k] = [@ EXCEPT !.pc = "emotes"]]
            /\ last' = Ran("UserIdResponse", k, "found", << >>)
       ELSE /\ conn' = [conn EXCEPT ![k] = Done(NoConnect)]
            /\ last' = Ran("UserIdResponse", k, "none", << >>)
  /\ UNCHANGED <<windowOpen, authVars, saying, clients, twitchClient,
                 currentChannel, nInputs, expired>>

\* getTwitchUserId answers (index.js 107-119, sevenTvService.js 68-104).
UserIdResponse(k, found) ==
  /\ conn[k].pc = "userId"
  /\ IF found
       THEN /\ conn' = [conn EXCEPT ![k] = [@ EXCEPT !.pc = "emotes"]]
            /\ last' = Ran("UserIdResponse", k, "found", << >>)
            /\ UNCHANGED clients
       ELSE EnterConnectToChannel(k, "UserIdResponse", "none")
  /\ UNCHANGED <<windowOpen, authVars, saying, twitchClient, currentChannel, nInputs,
                 expired>>

\* fetchChannelEmotes answers or fails (index.js 112, 119).
EmotesResponse(k) ==
  /\ conn[k].pc = "emotes"
  /\ EnterConnectToChannel(k, "EmotesResponse", "none")
  /\ UNCHANGED <<windowOpen, authVars, saying, twitchClient, currentChannel, nInputs,
                 expired>>

ExistsResponse_Retries(k, outcome) ==
  /\ conn[k].pc = "exists"
  /\ last' = Ran("ExistsResponse", k, outcome,
                 ToRenderer(windowOpen, Status("error", conn[k].chan, "notfound")))
  /\ UNCHANGED <<windowOpen, authVars, chatVars, nInputs, expired>>

\* doesChannelExist answers (twitchChatService.js 629-681, 808-810).
ExistsResponse(k, outcome) ==
  /\ conn[k].pc = "exists"
  /\ IF ChannelExists(outcome)
       THEN /\ currentChannel' = ToLowerCase(conn[k].chan)
            /\ clients' = Append(clients,
                 NewClient(k, ToLowerCase(conn[k].chan), authObjs[conn[k].auth].token))
            /\ twitchClient' = Len(clients) + 1
            /\ conn' = [conn EXCEPT ![k] = [NoConnect EXCEPT !.pc = "connecting"]]
            /\ last' = Ran("ExistsResponse", k, outcome, << >>)
       ELSE /\ conn' = [conn EXCEPT ![k] = Done(NoConnect)]
            /\ last' = Ran("ExistsResponse", k, outcome,
                           ToRenderer(windowOpen,
                                      Status("error", conn[k].chan, "notfound")))
            /\ UNCHANGED <<clients, twitchClient, currentChannel>>
  /\ UNCHANGED <<windowOpen, authVars, saying, nInputs, expired>>

\* ------------------------------------------------------------- disconnect
\* disconnectFromChannel up to its await, or to its end when disconnect()
\* rejects at once (twitchChatService.js 828-854).  owner is the connect
\* request that waits for it, 0 when nobody does; alive says whether the
\* window still takes status events.
DisconnectFromChannel(op, owner, alive) ==
  IF twitchClient = NULL
    THEN /\ last' = Ran(op, 0, "none", << >>)
         /\ UNCHANGED <<clients, twitchClient, currentChannel>>
    ELSE IF clients[twitchClient].state # "CLOSED"
      THEN /\ clients' = [clients EXCEPT ![twitchClient] = Closing(@, owner)]
           /\ last' = Ran(op, 0, "closing", << >>)
           /\ UNCHANGED <<twitchClient, currentChannel>>
      ELSE /\ clients' = [clients EXCEPT ![twitchClient] = Unlistened(@)]
           /\ currentChannel' = NoChannel
           /\ twitchClient' = NULL
           /\ last' = Ran(op, 0, "rejected",
                          ToRenderer(alive, Status("disconnected", currentChannel,
                                                   "unexpected")))

\* ipcMain.on("disconnect-from-twitch") (index.js 139-142).
DisconnectRequest ==
  /\ windowOpen
  /\ Input
  /\ DisconnectFromChannel("DisconnectRequest", 0, TRUE)
  /\ UNCHANGED <<windowOpen, authVars, saying, conn, expired>>

\* -------------------------------------------------------------- sendMessage
\* What sendMessage returns without a connected session
\* (twitchChatService.js 904) and after a say() that failed (891).
NotConnectedResult == FALSE
SayFailedResult == FALSE

\* ipcMain.on("send-message") (index.js 145-166) calls sendMessage
\* (twitchChatService.js 875-906) without awaiting it: what it gets is a
\* promise, so its own "Failed to send" line is never sent and its catch
\* never runs.  sendMessage calls say() only on an open shared client with
\* a current channel; otherwise it tells the chat view and returns.
SendMessage(text) ==
  /\ windowOpen
  /\ Input
  /\ IF SessionOpen /\ currentChannel # NoChannel
       THEN /\ saying < MaxSaying
            /\ saying' = saying + 1
            /\ last' = Ran("SendMessage", 0, "say", << >>)
       ELSE /\ saying' = saying
            /\ last' = Ran("SendMessage", 0, "notconnected",
                           <<ChatMessage("notconnected"), Returned(NotConnectedResult)>>)
  /\ UNCHANGED <<windowOpen, authVars, conn, clients, twitchClient,
                 currentChannel, expired>>

\* say() settles (twitchChatService.js 877-891).
SayResponse(outcome) ==
  /\ saying > 0
  /\ saying' = saying - 1
  /\ last' = Ran("SayResponse", 0, outcome,
                 IF outcome = "ok"
                   THEN <<Returned(TRUE)>>
                   ELSE ToRenderer(windowOpen, ChatMessage("sayerror"))
                          \o <<Returned(SayFailedResult)>>)
  /\ UNCHANGED <<windowOpen, authVars, conn, clients, twitchClient,
                 currentChannel, nInputs, expired>>

\* ----------------------------------------------------- tmi client events
\* What a handler of client cl sends: nothing after removeAllListeners().
FromHandler(cl, ev) == IF cl.handlers THEN ToRenderer(windowOpen, ev) ELSE << >>

\* The socket of client c opens: the "connected" handler reports the shared
\* currentChannel (twitchChatService.js 664-672) and connect() resolves for
\* the request that awaits it (810).
ClientConnected(c) ==
  LET cl == clients[c] IN
  /\ cl.state = "CONNECTING"
  /\ clients' = [clients EXCEPT ![c] = [@ EXCEPT !.state = "OPEN", !.connWaiter = 0]]
  /\ conn' = IF cl.connWaiter > 0
               THEN [conn EXCEPT ![cl.connWaiter] = Done(NoConnect)]
               ELSE conn
  /\ last' = Ran("ClientConnected", c, "none",
                 FromHandler(cl, Status("connected", currentChannel, "none")))
  /\ UNCHANGED <<windowOpen, authVars, saying, twitchClient, currentChannel, nInputs,
                 expired>>

ClientConnectFailed_KeepsClient(c) ==
  LET cl == clients[c]
      k == cl.connWaiter IN
  /\ cl.state = "CONNECTING"
  /\ clients' = [clients EXCEPT ![c] = [@ EXCEPT !.state = "CLOSED", !.connWaiter = 0]]
  /\ conn' = IF k > 0 THEN [conn EXCEPT ![k] = Done(NoConnect)] ELSE conn
  /\ last' = Ran("ClientConnectFailed", c, "none",
                 FromHandler(cl, Status("disconnected", NoChannel, "reason"))
                 \o (IF k > 0
                       THEN ToRenderer(windowOpen, Status("error", currentChannel, "connect"))
                       ELSE << >>))
  /\ UNCHANGED <<windowOpen, authVars, saying, twitchClient, currentChannel,
                 nInputs, expired>>

\* The connection attempt of client c fails: the "disconnected" handler
\* reports the reason without a channel (675-681), connect() rejects and
\* the request that awaits it reports the error and forgets the shared
\* client (811-822).
ClientConnectFailed(c) ==
  LET cl == clients[c]
      k == cl.connWaiter IN
  /\ cl.state = "CONNECTING"
  /\ clients' = [clients EXCEPT ![c] = [@ EXCEPT !.state = "CLOSED", !.connWaiter = 0]]
  /\ conn' = IF k > 0 THEN [conn EXCEPT ![k] = Done(NoConnect)] ELSE conn
  /\ twitchClient' = IF k > 0 THEN NULL ELSE twitchClient
  /\ last' = Ran("ClientConnectFailed", c, "none",
                 FromHandler(cl, Status("disconnected", NoChannel, "reason"))
                 \o (IF k > 0
                       THEN ToRenderer(windowOpen, Status("error", currentChannel, "connect"))
                       ELSE << >>))
  /\ UNCHANGED <<windowOpen, authVars, saying, currentChannel, nInputs, expired>>

ClientDropped_AsError(c) ==
  LET cl == clients[c] IN
  /\ cl.state = "OPEN"
  /\ clients' = [clients EXCEPT ![c] = [@ EXCEPT !.state = "CLOSED"]]
  /\ last' = Ran("ClientDropped", c, "none",
                 FromHandler(cl, Status("error", currentChannel, "reason")))
  /\ UNCHANGED <<windowOpen, authVars, saying, conn, twitchClient,
                 currentChannel, nInputs, expired>>

\* The open connection of client c drops (675-681).
ClientDropped(c) ==
  LET cl == clients[c] IN
  /\ cl.state = "OPEN"
  /\ clients' = [clients EXCEPT ![c] = [@ EXCEPT !.state = "CLOSED"]]
  /\ last' = Ran("ClientDropped", c, "none",
                 FromHandler(cl, Status("disconnected", NoChannel, "reason")))
  /\ UNCHANGED <<windowOpen, authVars, saying, conn, twitchClient, currentChannel,
                 nInputs, expired>>

\* connection: { reconnect: true } (647-650): a client whose connection was
\* lost, and not closed by disconnect(), connects again by itself.
ClientReconnect(c) ==
  /\ clients[c].state = "CLOSED"
  /\ ~clients[c].closeCalled
  /\ Input
  /\ clients' = [clients EXCEPT ![c] = [@ EXCEPT !.state = "CONNECTING"]]
  /\ last' = Ran("ClientReconnect", c, "none", << >>)
  /\ UNCHANGED <<windowOpen, authVars, saying, conn, twitchClient, currentChannel,
                 expired>>

\* The socket that disconnect() closed is closed: disconnectFromChannel goes
\* on (833-840), and so does the connectToChannel that awaited it (622-629).
ClientClosed(c) ==
  LET cl == clients[c]
      k == cl.closeWaiter IN
  /\ cl.state = "CLOSING"
  /\ clients' = [clients EXCEPT ![c] = Closed(@)]
  /\ IF k >= 0
       THEN /\ currentChannel' = NoChannel
            /\ twitchClient' = NULL
       ELSE UNCHANGED <<currentChannel, twitchClient>>
  /\ conn' = IF k > 0 THEN [conn EXCEPT ![k] = [@ EXCEPT !.pc = "exists"]] ELSE conn
  /\ last' = Ran("ClientClosed", c, "none",
                 (IF k >= 0
                    THEN ToRenderer(windowOpen, Status("disconnected", currentChannel, "user"))
                    ELSE << >>)
                 \o (IF k > 0
                       THEN ToRenderer(windowOpen, Status("connecting", conn[k].chan, "verify"))
                       ELSE << >>))
  /\ UNCHANGED <<windowOpen, authVars, saying, nInputs, expired>>

\* ------------------------------------------------------------ chat colours
\* A string is the sequence of its characters: a hex digit is its value,
\* HASH is "#", LETTER_G stands for any character that is no hex digit.
HASH == 16
LETTER_G == 17
HexDigits == 0..15

\* What parseInt and the arithmetic on it give for a non-number.
NaN == -1

\* hex.substring(a, b)
Substring(hex, a, b) == SubSeq(hex, a + 1, b)

\* parseInt(str, 16) of a two character string: the digits up to the first
\* character that is none, NaN if the first is none.
ParseInt16(str) ==
  IF str[1] \notin HexDigits THEN NaN
  ELSE IF str[2] \notin HexDigits THEN str[1]
  ELSE 16 * str[1] + str[2]

\* Luminances are counted in 1/10000: 0.2126 is 2126.
LuminanceScale == 10000

\* The sum 0.2126 * r + 0.7152 * g + 0.0722 * b is computed in doubles.  It
\* is off the exact value by far less than 1/10000, which shows only where
\* the exact value is a threshold: of the colours at exactly 40 the double
\* sum is 40 for all but r = g = b = 40, where it is 39.99999999999999.
DoubleSum(r, g, b) ==
  IF r = 40 /\ g = 40 /\ b = 40
    THEN 2126 * r + 7152 * g + 722 * b - 1
    ELSE 2126 * r + 7152 * g + 722 * b

\* getLuminance (twitchChatService.js 465-472).
getLuminance(hex) ==
  IF hex = << >> \/ Len(hex) # 7 THEN 0
  ELSE LET r == ParseInt16(Substring(hex, 1, 3))
           g == ParseInt16(Substring(hex, 3, 5))
           b == ParseInt16(Substring(hex, 5, 7))
       IN IF r = NaN \/ g = NaN \/ b = NaN THEN NaN ELSE DoubleSum(r, g, b)

MIN_LUMINANCE == 40
FALLBACK_COLOR == <<HASH, 10, 10, 10, 10, 10, 10>>

\* The 6-digit form of a 4 character colour (488-491).
Expanded(hex) ==
  IF Len(hex) = 4
    THEN <<HASH, hex[2], hex[2], hex[3], hex[3], hex[4], hex[4]>>
    ELSE hex

\* luminance < MIN_LUMINANCE, which is false for NaN.
TooDark(luminance) ==
  luminance # NaN /\ luminance < MIN_LUMINANCE * LuminanceScale

\* ensureReadableColor (twitchChatService.js 480-501).
ensureReadableColor(originalColor) ==
  IF originalColor = << >> THEN FALLBACK_COLOR
  ELSE IF TooDark(getLuminance(Expanded(originalColor))) THEN FALLBACK_COLOR
  ELSE originalColor

\* The palette of getColorFromUsername (510-518).
colors ==
  << <<HASH, 15, 15, 4, 5, 0, 0>>,    \* #FF4500
     <<HASH, 2, 14, 8, 11, 5, 7>>,    \* #2E8B57
     <<HASH, 1, 14, 9, 0, 15, 15>>,   \* #1E90FF
     <<HASH, 13, 10, 7, 0, 13, 6>>,   \* #DA70D6
     <<HASH, 15, 15, 1, 4, 9, 3>>,    \* #FF1493
     <<HASH, 0, 0, 12, 14, 13, 1>>,   \* #00CED1
     <<HASH, 15, 15, 13, 7, 0, 0>> >> \* #FFD700

\* The chat users and username.charCodeAt(i).
ChatUsers == {"bob", "eve"}
CharCodes(username) ==
  IF username = "bob" THEN <<98, 111, 98>> ELSE <<101, 118, 101>>

\* hash = charCode + ((hash << 5) - hash), over the characters (519-522).
\* The users' names are short: the 32 bit shift never wraps.
RECURSIVE HashOf(_, _)
HashOf(codes, n) ==
  IF n = 0 THEN 0
  ELSE LET hash == HashOf(codes, n - 1)
       IN codes[n] + ((hash * 32) - hash)

Abs(x) == IF x < 0 THEN 0 - x ELSE x

\* getColorFromUsername (twitchChatService.js 509-524).
getColorFromUsername(username) ==
  LET codes == CharCodes(username)
  IN colors[(Abs(HashOf(codes, Len(codes))) % Len(colors)) + 1]

\* The colours the provider sends with a message, NoColor when it sends
\* none: black, red, "#00F", "#282828", "#GGGGGG", "GGG".
NoColor == << >>
ProviderColors ==
  { NoColor,
    <<HASH, 0, 0, 0, 0, 0, 0>>,
    <<HASH, 15, 15, 0, 0, 0, 0>>,
    <<HASH, 0, 0, 15>>,
    <<HASH, 2, 8, 2, 8, 2, 8>>,
    <<HASH, LETTER_G, LETTER_G, LETTER_G, LETTER_G, LETTER_G, LETTER_G>>,
    <<LETTER_G, LETTER_G, LETTER_G>> }

\* Those a cheer comes with: none, black, red.
CheerColors ==
  {NoColor, <<HASH, 0, 0, 0, 0, 0, 0>>, <<HASH, 15, 15, 0, 0, 0, 0>>}

\* The default of a cheer without a colour, "#FFD700" (712).
CheerGold == <<HASH, 15, 15, 13, 7, 0, 0>>

\* A line for the chat view: sendToRenderer("chat-message", {...}).
ChatLine(username, text, color, isSystem) ==
  <<"chat-message", username, text, color, isSystem>>

\* --------------------------------------------------------- provider notices
NoticeIds ==
  {"msg_banned", "msg_channel_suspended", "msg_duplicate", "msg_followed",
   "msg_slowmode", "msg_subsonly", "msg_ratelimit", "msg_emoteonly", "msg_r9k",
   "msg_bad_words", "msg_timedout"}

\* systemMessageText of the notice handler (762-801), as the pieces of its
\* template: the provider's text unless the switch has a case for msgid.
NoticeText(channel, msgid, message) ==
  CASE msgid \in {"msg_banned", "msg_channel_suspended"} ->
         <<"You are banned from #", channel, " chat.">>
    [] msgid = "msg_duplicate" ->
         <<"Your message was not sent: Duplicate message (try adding a space or changing slightly).">>
    [] msgid = "msg_followed" ->
         <<"This channel is in followers-only mode. You must be following for longer to chat.">>
    [] msgid = "msg_slowmode" ->
         <<"This channel is in slow mode. Please wait a moment before sending another message.">>
    [] msgid = "msg_subsonly" -> <<"This channel is in subscribers-only mode.">>
    [] msgid = "msg_ratelimit" ->
         <<"You are sending messages too fast (rate limit exceeded).">>
    [] msgid = "msg_emoteonly" -> <<"This channel is in emote-only mode.">>
    [] msgid = "msg_r9k" ->
         <<"This channel is in R9K (9K-message) mode. Your message was too similar to recent messages.">>
    [] msgid = "msg_bad_words" -> <<"Your message was not sent: Blocked by AutoMod.">>
    [] OTHER -> <<message>>

NoticeColor_AlwaysDefault(msgid) == "#FFA500"

\* systemMessageColor of the notice handler (763-801).
NoticeColor(msgid) ==
  CASE msgid \in {"msg_banned", "msg_channel_suspended", "msg_bad_words"} -> "#DC143C"
    [] msgid = "msg_subsonly" -> "#8A2BE2"
    [] OTHER -> "#FFA500"

\* ------------------------------------------------------ tmi chat events
\* The handlers below run on a client that connectToChannel gave them to
\* and that has not been through removeAllListeners().
\* The "message" handler (684-708): nothing for a message of our own.
ClientMessage(c, color, username, self) ==
  LET cl == clients[c]
      rawColor == IF color # NoColor THEN color ELSE getColorFromUsername(username)
      finalColor == ensureReadableColor(rawColor) IN
  /\ cl.state = "OPEN"
  /\ cl.handlers
  /\ last' = IF self
               THEN Ran("ClientMessage", c, "self", << >>)
               ELSE Ran("ClientMessage", c, <<color, username>>,
                        ToRenderer(windowOpen, ChatLine(username, "text", finalColor, FALSE)))
  /\ UNCHANGED <<windowOpen, authVars, chatVars, nInputs, expired>>

\* The "cheer" handler (711-727).
ClientCheer(c, color, username) ==
  LET cl == clients[c]
      rawColor == IF color # NoColor THEN color ELSE CheerGold
      finalColor == ensureReadableColor(rawColor) IN
  /\ cl.state = "OPEN"
  /\ cl.handlers
  /\ last' = Ran("ClientCheer", c, <<color, username>>,
                 ToRenderer(windowOpen, ChatLine(username, "text", finalColor, FALSE)))
  /\ UNCHANGED <<windowOpen, authVars, chatVars, nInputs, expired>>

\* The "notice" handler (760-806).
ClientNotice(c, msgid, message) ==
  LET cl == clients[c] IN
  /\ cl.state = "OPEN"
  /\ cl.handlers
  /\ last' = Ran("ClientNotice", c, <<msgid, message>>,
                 ToRenderer(windowOpen, ChatLine("System", NoticeText(cl.chan, msgid, message),
                                          NoticeColor(msgid), TRUE)))
  /\ UNCHANGED <<windowOpen, authVars, chatVars, nInputs, expired>>

\* ------------------------------------------------------------------ window
\* mainWindow.on("closed") (index.js 212-217): the window is destroyed.
CloseWindow ==
  /\ windowOpen
  /\ windowOpen' = FALSE
  /\ DisconnectFromChannel("CloseWindow", 0, FALSE)
  /\ timers' = StoppedTimers(timers, refreshIntervalId)
  /\ refreshIntervalId' = NULL
  /\ servers' = StoppedServers(servers, server)
  /\ UNCHANGED <<currentAuthDetails, authObjs, server, nextEx, req, tick,
                 storedEx, conn, saying, nInputs, expired>>

\* ------------------------------------------------------------ chat view
MAX_MESSAGES == 300

\* arr.slice(start)
Slice(arr, start) == SubSeq(arr, start + 1, Len(arr))

addMessageAndSlice_KeepsOldest(prevMessages, newMessage) ==
  LET newMessages == Append(prevMessages, newMessage) IN
  IF Len(newMessages) > MAX_MESSAGES
    THEN SubSeq(newMessages, 1, MAX_MESSAGES)
    ELSE newMessages

\* addMessageAndSlice (ChatPage.jsx 20-27).
addMessageAndSlice(prevMessages, newMessage) ==
  LET newMessages == Append(prevMessages, newMessage) IN
  IF Len(newMessages) > MAX_MESSAGES
    THEN Slice(newMessages, Len(newMessages) - MAX_MESSAGES)
    ELSE newMessages

\* One more line is made.
NewLine ==
  /\ arrived < MaxArrivals
  /\ arrived' = arrived + 1

\* prevMessages[0].text === "Enter a channel name to connect!": the text of
\* the initial line of a page mounted without a name (43-45, 123-124).
IsEnterChannelLine(message) ==
  message = InitialMessage /\ authenticatedUsername = NoName

\* The onChatMessage listener (101-107).
OnChatMessage ==
  /\ NewLine
  /\ messages' = addMessageAndSlice(messages, arrived + 1)
  /\ held' = held + 1
  /\ UNCHANGED <<authenticatedUsername, isConnected, isConnecting>>

\* The onConnectionStatus listener (110-162): a connected status replaces
\* the initial line or is appended, a disconnected and an error status are
\* appended, any other status (connecting) has no branch.
OnConnectionStatus(status) ==
  /\ IF status = "connected"
       THEN /\ NewLine
            /\ isConnected' = TRUE
            /\ isConnecting' = FALSE
            /\ IF Len(messages) = 1 /\ IsEnterChannelLine(messages[1])
                 THEN /\ messages' = <<arrived + 1>>
                      /\ held' = 1
                 ELSE /\ messages' = addMessageAndSlice(messages, arrived + 1)
                      /\ held' = held + 1
       ELSE IF status \in {"disconnected", "error"}
         THEN /\ NewLine
              /\ isConnected' = FALSE
              /\ isConnecting' = FALSE
              /\ messages' = addMessageAndSlice(messages, arrived + 1)
              /\ held' = held + 1
         ELSE UNCHANGED <<messages, isConnected, isConnecting, arrived, held>>
  /\ UNCHANGED authenticatedUsername

\* handleConnectToggle with a channel name entered (303-356): nothing while
\* connecting, a disconnect request while connected, and otherwise the
\* list is replaced by the "Attempting to connect" line and a connect
\* request is sent.
HandleConnectToggle ==
  /\ IF isConnecting \/ isConnected
       THEN UNCHANGED <<messages, isConnecting, arrived, held>>
       ELSE /\ NewLine
            /\ isConnecting' = TRUE
            /\ messages' = <<arrived + 1>>
            /\ held' = 1
  /\ UNCHANGED <<authenticatedUsername, isConnected>>

\* ------------------------------------------------------------ emote cache
\* A Map is the sequence of its entries in insertion order.
MapHas(map, key) == \E i \in DOMAIN map : map[i].id = key

\* map.set(key, value): a key the Map has keeps its place.
MapSet(map, key, value) ==
  IF MapHas(map, key)
    THEN [i \in DOMAIN map |->
            IF map[i].id = key THEN [id |-> key, emotes |-> value] ELSE map[i]]
    ELSE Append(map, [id |-> key, emotes |-> value])

MapDeleteTest(entry, key) == entry.id # key

\* map.delete(key)
MapDelete(map, key) ==
  SelectSeq(map, LAMBDA entry : MapDeleteTest(entry, key))

\* The emotes a 2xx answer to call f lists for channel id.
EmotesOf(id, f) == <<id, f>>

\* The entries of the last key of the Map, none for an empty Map
\* (sevenTvService.js 172-182, 201-211).
CurrentChannelEmotes(map) ==
  IF Len(map) > 0 THEN map[Len(map)].emotes ELSE << >>

\* sendEmotesToRenderer (170-190) with the Map as it is after the run's
\* change: nothing is sent to a destroyed window.
SendEmotesToRenderer(map) ==
  emoteUpdate' = IF windowOpen
                   THEN [via |-> "7tv-emotes-update",
                         channelEmotes |-> CurrentChannelEmotes(map)]
                   ELSE emoteUpdate

\* fetchGlobalEmotes answers (29-60): a 2xx answer fills the global cache
\* and is sent on, a failure is logged.
GlobalEmotesResponse(ok) ==
  /\ globalFetch = "fetching"
  /\ globalFetch' = "done"
  /\ IF ok
       THEN /\ globalSevenTvEmotes' = <<"global">>
            /\ SendEmotesToRenderer(channelSevenTvEmotes)
       ELSE UNCHANGED <<globalSevenTvEmotes, emoteUpdate>>
  /\ UNCHANGED <<channelSevenTvEmotes, fetch, fetched>>

\* fetchChannelEmotes up to its await (110-120), called by a connect
\* request with the id it looked up (index.js 111-112).
FetchChannelEmotes(f, id) ==
  /\ fetch[f].pc = "none"
  /\ InOrder(fetch, f)
  /\ fetch' = [fetch EXCEPT ![f] = [@ EXCEPT !.pc = "fetching", !.id = id]]
  /\ UNCHANGED <<globalSevenTvEmotes, globalFetch, channelSevenTvEmotes, fetched,
                 emoteUpdate>>

\* The fetch answers (121-163): a 2xx answer sets the channel's entry, a
\* 404, any other answer and a network error delete it; each is sent on.
ChannelEmotesResponse(f, outcome) ==
  LET id == fetch[f].id
      map == IF outcome = "ok"
               THEN MapSet(channelSevenTvEmotes, id, EmotesOf(id, f))
               ELSE MapDelete(channelSevenTvEmotes, id) IN
  /\ fetch[f].pc = "fetching"
  /\ channelSevenTvEmotes' = map
  /\ SendEmotesToRenderer(map)
  /\ fetch' = [fetch EXCEPT ![f] = [@ EXCEPT !.pc = "done", !.outcome = outcome]]
  /\ fetched' = f
  /\ UNCHANGED <<globalSevenTvEmotes, globalFetch>>

\* ipcMain.handle("get-7tv-channel-emotes") (200-212).
GetChannelEmotes ==
  /\ emoteUpdate' = [via |-> "get-7tv-channel-emotes",
                     channelEmotes |-> CurrentChannelEmotes(channelSevenTvEmotes)]
  /\ UNCHANGED <<globalSevenTvEmotes, globalFetch, channelSevenTvEmotes, fetch,
                 fetched>>

\* ---------------------------------------------------------- specifications
AuthNext ==
  \/ StartOAuthFlow /\ MainOnly
  \/ \E r \in Requests : HttpErrorRequest(r) /\ MainOnly
  \/ \E r \in Requests : HttpCodeRequest(r) /\ MainOnly
  \/ \E r \in Requests : HttpOtherRequest(r) /\ MainOnly
  \/ \E r \in Requests, o \in {"ok", "non2xx", "neterr"} : TokenResponse(r, o) /\ MainOnly
  \/ \E r \in Requests, o \in UserNames \cup {NoName, "non2xx", "neterr"} :
       UserResponse(r, o) /\ MainOnly
  \/ \E t \in Ticks : TimerTick(t) /\ MainOnly
  \/ \E t \in Ticks, o \in {"ok", "non2xx", "neterr"} : RefreshResponse(t, o) /\ MainOnly
  \/ CloseWindow /\ MainOnly

\* The steps of the chat session, and the chat events that only make lines.
SessionNext ==
  \/ \E k \in Connects, ch \in Channels : ConnectRequest(k, ch) /\ MainOnly
  \/ \E k \in Connects, found \in BOOLEAN : UserIdResponse(k, found) /\ MainOnly
  \/ \E k \in Connects : EmotesResponse(k) /\ MainOnly
  \/ \E k \in Connects, o \in {"found", "absent", "non2xx", "neterr"} :
       ExistsResponse(k, o) /\ MainOnly
  \/ DisconnectRequest /\ MainOnly
  \/ \E text \in {"hi"} : SendMessage(text) /\ MainOnly
  \/ \E o \in {"ok", "error"} : SayResponse(o) /\ MainOnly
  \/ \E c \in ClientIds : ClientConnected(c) /\ MainOnly
  \/ \E c \in ClientIds : ClientConnectFailed(c) /\ MainOnly
  \/ \E c \in ClientIds : ClientDropped(c) /\ MainOnly
  \/ \E c \in ClientIds : ClientReconnect(c) /\ MainOnly
  \/ \E c \in ClientIds : ClientClosed(c) /\ MainOnly

LineNext ==
  \/ \E c \in ClientIds, color \in ProviderColors : ClientMessage(c, color, "bob", FALSE) /\ MainOnly
  \/ \E c \in ClientIds, u \in ChatUsers : ClientMessage(c, NoColor, u, FALSE) /\ MainOnly
  \/ \E c \in ClientIds : ClientMessage(c, NoColor, "bob", TRUE) /\ MainOnly
  \/ \E c \in ClientIds, color \in CheerColors : ClientCheer(c, color, "eve") /\ MainOnly
  \/ \E c \in ClientIds, id \in NoticeIds : ClientNotice(c, id, "provider text") /\ MainOnly

ChatNext == SessionNext \/ LineNext

Next == AuthNext \/ ChatNext

Spec == Init /\ [][Next]_vars

\* The emote service alone, with the window open.
EmoteNext ==
  \/ \E ok \in BOOLEAN : GlobalEmotesResponse(ok) /\ MainIdle /\ RendererIdle
  \/ \E f \in Fetches, id \in TwitchIds :
       FetchChannelEmotes(f, id) /\ MainIdle /\ RendererIdle
  \/ \E f \in Fetches, o \in {"ok", "404", "non2xx", "neterr"} :
       ChannelEmotesResponse(f, o) /\ MainIdle /\ RendererIdle
  \/ GetChannelEmotes /\ MainIdle /\ RendererIdle

EmoteSpec == Init /\ [][EmoteNext]_vars

\* Every network call returns: each lookup a handler is suspended at is
\* answered, ok or not, each connection attempt of a tmi client ends, open
\* or failed, and each socket that is closing gets closed.
CallsReturn ==
  /\ \A r \in Requests :
       /\ WF_vars((\E o \in {"ok", "non2xx", "neterr"} : TokenResponse(r, o)) /\ MainOnly)
       /\ WF_vars((\E o \in UserNames \cup {NoName, "non2xx", "neterr"} :
                     UserResponse(r, o)) /\ MainOnly)
  /\ \A t \in Ticks :
       WF_vars((\E o \in {"ok", "non2xx", "neterr"} : RefreshResponse(t, o)) /\ MainOnly)
  /\ \A k \in Connects :
       /\ WF_vars((\E found \in BOOLEAN : UserIdResponse(k, found)) /\ MainOnly)
       /\ WF_vars(EmotesResponse(k) /\ MainOnly)
       /\ WF_vars((\E o \in {"found", "absent", "non2xx", "neterr"} :
                     ExistsResponse(k, o)) /\ MainOnly)
  /\ WF_vars((\E o \in {"ok", "error"} : SayResponse(o)) /\ MainOnly)
  /\ \A c \in Connects :
       /\ WF_vars(c \in ClientIds /\ (ClientConnected(c) \/ ClientConnectFailed(c))
                    /\ MainOnly)
       /\ WF_vars(c \in ClientIds /\ ClientClosed(c) /\ MainOnly)

\* The login and the chat session under that proviso; the chat events that
\* only make lines have no part in it.
LiveNext == AuthNext \/ SessionNext

LiveSpec == Init /\ [][LiveNext]_vars /\ CallsReturn

\* The chat view alone, mounted with or without a name, taking the lines
\* and statuses of the main process in any order.
RendererInit ==
  MainInit /\ (\E name \in UserNames \cup {NoName} : MountedChatPage(name)) /\ EmoteInit

RendererNext ==
  \/ OnChatMessage /\ MainIdle /\ EmoteIdle
  \/ \E status \in {"connecting", "connected", "disconnected", "error"} :
       OnConnectionStatus(status) /\ MainIdle /\ EmoteIdle
  \/ HandleConnectToggle /\ MainIdle /\ EmoteIdle

RendererSpec == RendererInit /\ [][RendererNext]_vars

\* ------------------------------------------------------------------ claims
\* !authDetails || !authDetails.token || !authDetails.username, read off
\* the store.
NoUsableCredential ==
  \/ currentAuthDetails = NULL
  \/ authObjs[currentAuthDetails].token = NULL
  \/ authObjs[currentAuthDetails].username = NoName

\* C1: a connect request that arrives while the store holds no credential,
\* or one without a token or without a name, returns at once: no lookup is
\* left pending, no client is created or made the shared client, and what
\* is sent is one error status for the requested channel with the
\* "authentication required" reason, and the system line that goes with it.
C1_RefusedWithoutCredential ==
  [][\A k \in Connects :
       (conn[k].pc = "none" /\ conn'[k].pc # "none" /\ NoUsableCredential)
         => /\ conn'[k].pc = "done"
            /\ clients' = clients
            /\ twitchClient' = twitchClient
            /\ last'.sent = <<Status("error", last'.arg, "auth"), AuthRequiredLine>>]_vars

\* C1's case: a connect request was refused while a credential without a
\* name was stored.
C1_Witness ==
  /\ last.op = "ConnectRequest"
  /\ conn[last.id].pc = "done"
  /\ currentAuthDetails # NULL
  /\ authObjs[currentAuthDetails].username = NoName
  /\ last.sent = <<Status("error", last.arg, "auth"), AuthRequiredLine>>

\* C2: when the existence check of connect request k answers anything but
\* "found" (the channel is absent, a non-2xx answer, a network error), the
\* request ends there: no client is created, none is made the shared
\* client, so nothing is connected, and the error status with the "not
\* found" reason for the requested channel is handed to the renderer (which
\* takes it as long as the window exists).
C2_NotFoundStopsConnect ==
  [][\A k \in Connects :
       (conn[k].pc = "exists" /\ conn'[k].pc # "exists"
        /\ last'.arg \in {"absent", "non2xx", "neterr"})
         => /\ conn'[k].pc = "done"
            /\ clients' = clients
            /\ twitchClient' = twitchClient
            /\ last'.sent = ToRenderer(windowOpen,
                                       Status("error", conn[k].chan, "notfound"))]_vars

\* C2's case: the existence check failed on a network error and the error
\* status went out.
C2_Witness ==
  /\ last.op = "ExistsResponse"
  /\ last.arg = "neterr"
  /\ conn[last.id].pc = "done"
  /\ \E ch \in Channels : last.sent = <<Status("error", ch, "notfound")>>

LiveClients == {c \in ClientIds : clients[c].state \in {"CONNECTING", "OPEN"}}

\* C3: at most one tmi client is open or connecting at any time.
C3_AtMostOneLiveClient == Cardinality(LiveClients) <= 1

InFlight == {k \in Connects : conn[k].pc \notin {"none", "done"}}

\* C4: at most one connect request is under way (started and not yet
\* returned) at any time.
C4_AtMostOneConnectInFlight == Cardinality(InFlight) <= 1

\* No handler is suspended and no socket is on its way to open or closed:
\* nothing happens any more unless an input arrives.
Quiescent ==
  /\ \A r \in Requests : req[r].pc \in {"none", "done"}
  /\ \A t \in Ticks : tick[t].pc \in {"none", "done"}
  /\ InFlight = {}
  /\ \A c \in ClientIds : clients[c].state \in {"OPEN", "CLOSED"}

\* C5: once the credential was cleared while a session was open, that
\* session does not stay open: when the program has come to rest it is no
\* longer the open shared client.
C5_ExpiredSessionTornDown ==
  (expired # NULL /\ currentAuthDetails = NULL /\ Quiescent)
    => ~(twitchClient = expired /\ clients[expired].state = "OPEN")

FailureCallback == Callback("onOAuthFailureCallback")

\* C6: after the run in which a refresh exchange failed (non-2xx answer,
\* network error, or the write into a store that was reset meanwhile), the
\* store is empty, no interval is left running, and that run called the
\* failure callback exactly once.
C6_FailedRefreshClearsAndStops ==
  (last.op = "RefreshResponse" /\ last.arg # "ok")
    => /\ currentAuthDetails = NULL
       /\ refreshIntervalId = NULL
       /\ \A i \in DOMAIN timers : ~timers[i]
       /\ Count(last.sent, FailureCallback) = 1

\* C6's case: a refresh was answered non-2xx after a timer had been started.
C6_Witness ==
  /\ last.op = "RefreshResponse"
  /\ last.arg = "non2xx"
  /\ Len(timers) >= 1
  /\ currentAuthDetails = NULL
  /\ Count(last.sent, FailureCallback) = 1

\* C7: after the run in which a refresh exchange succeeded, the store holds
\* exactly the pair that exchange returned; and the refresh token a tick
\* sends is the one returned by the exchange whose pair the store holds,
\* which after N - 1 successive refreshes is exchange N - 1.
C7_RefreshKeepsNewestPair ==
  /\ (last.op = "RefreshResponse" /\ last.arg = "ok")
       => /\ currentAuthDetails # NULL
          /\ storedEx = nextEx - 1
          /\ authObjs[currentAuthDetails].token = AccessTok(nextEx - 1)
          /\ authObjs[currentAuthDetails].refreshToken = RefreshTok(nextEx - 1)
  /\ \A t \in Ticks :
       (last.op = "TimerTick" /\ last.id = t /\ last.arg = "refresh")
         => tick[t].sentRT = RefreshTok(storedEx)

\* C7's case: one login (exchange 1), then two ticks whose refreshes
\* (exchanges 2 and 3) both succeeded, one after the other.
C7_Witness ==
  /\ last.op = "RefreshResponse"
  /\ last.arg = "ok"
  /\ last.id = 2
  /\ tick[1].pc = "done"
  /\ req[2].pc = "none"
  /\ Len(authObjs) = 1
  /\ storedEx = 3
  /\ authObjs[currentAuthDetails].refreshToken = RefreshTok(3)

\* C8: after the run that handled a request with an error parameter, no
\* server is listening.
C8_ErrorRequestStopsListener ==
  last.op = "HttpErrorRequest" => \A s \in DOMAIN servers : ~servers[s]

\* C9: after the run in which a request with a code parameter was handled
\* to its end, by a failed token exchange, a failed identity lookup or a
\* stored credential, no server is listening.
C9_CodeRequestStopsListener ==
  (last.op \in {"TokenResponse", "UserResponse"} /\ req[last.id].pc = "done")
    => \A s \in DOMAIN servers : ~servers[s]

\* C9's case: a first code request ended in a stored credential, the
\* listener was started again, and a second one ended in a failed token
\* exchange.
C9_Witness ==
  /\ last.op = "TokenResponse"
  /\ last.arg = "non2xx"
  /\ req[last.id].pc = "done"
  /\ Len(authObjs) = 1
  /\ Len(servers) = 2
  /\ \A s \in DOMAIN servers : ~servers[s]

\* C10: the run that handles a request with neither parameter sends a 400
\* and nothing else, calls no callback, and changes neither the servers
\* (one is still listening), nor the store, nor the timer.
C10_OtherRequestChangesNothing ==
  [][last'.op = "HttpOtherRequest"
       => /\ last'.sent = <<Response(400)>>
          /\ \E s \in DOMAIN servers' : servers'[s]
          /\ UNCHANGED <<server, servers, currentAuthDetails, authObjs, storedEx,
                         refreshIntervalId, timers>>]_vars

\* C10's case: a request with neither parameter arrived while a credential
\* was stored and the listener had been started again.
C10_Witness ==
  /\ last.op = "HttpOtherRequest"
  /\ last.sent = <<Response(400)>>
  /\ currentAuthDetails # NULL
  /\ \E s \in DOMAIN servers : servers[s]

SuccessCallback == Callback("onOAuthSuccessCallback")

\* The last run ended an authorization in failure: the provider sent an
\* error, or the token exchange or the identity lookup was answered non-2xx
\* or not at all.
AuthFailed ==
  \/ last.op = "HttpErrorRequest"
  \/ last.op \in {"TokenResponse", "UserResponse"} /\ last.arg \in {"non2xx", "neterr"}

C12_SuccessStoresCredential ==
  (last.op = "UserResponse" /\ last.arg \in UserNames)
    => /\ currentAuthDetails # NULL
       /\ authObjs[currentAuthDetails] = NewAuthDetails(storedEx, last.arg)
       /\ Count(last.sent, SuccessCallback) = 1
       /\ Count(last.sent, FailureCallback) = 0
       /\ Count(last.sent, OAuthStatus("success")) = 1

\* The code requests whose token exchange was sent.
Exchanging == {r \in Requests : req[r].pc \in {"exchange", "userinfo"}}

\* C13: of the code requests one listener received, that is of one login
\* attempt, at most one gets a token exchange.
C13_OneExchangePerAttempt ==
  \A r1, r2 \in Exchanging : req[r1].srv = req[r2].srv => r1 = r2

\* C14: every connecting or connected status a run sends carries the
\* channel name in lower case.
C14_StatusChannelLowerCase ==
  \A i \in DOMAIN last.sent :
    LET ev == last.sent[i] IN
    (Len(ev) = 4 /\ ev[1] = "connection-status" /\ ev[2] \in {"connecting", "connected"})
      => ev[3] = ToLowerCase(ev[3])

\* The session is disconnected: there is no shared client, or its
\* connection is closed.
SessionDisconnected ==
  twitchClient = NULL \/ clients[twitchClient].state = "CLOSED"

\* C15: a disconnect request that arrives while the session is disconnected
\* does nothing: it calls nothing on any client and sends no status.
C15_DisconnectIdempotent ==
  [][(last'.op = "DisconnectRequest" /\ SessionDisconnected)
       => /\ last'.sent = << >>
          /\ clients' = clients]_vars

\* The disconnected statuses among what a run sent.
Disconnects(sent) ==
  {i \in DOMAIN sent : /\ Len(sent[i]) = 4
                       /\ sent[i][1] = "connection-status"
                       /\ sent[i][2] = "disconnected"}

\* The last run took disconnectFromChannel to its end: the socket it closed
\* is closed, or disconnect() threw.
DisconnectEnded ==
  \/ last.op = "ClientClosed"
  \/ last.op \in {"DisconnectRequest", "CloseWindow"} /\ last.arg = "rejected"

\* C16: a client on which disconnect() was called has no handlers left, so
\* its socket closes with the handlers already removed; and when
\* disconnectFromChannel has come to its end, with disconnect() resolved or
\* thrown, there is neither a shared client nor a current channel, and the
\* run handed exactly one disconnected status to the renderer (which takes
\* it while the window exists).
C16_DisconnectAlwaysDisconnects ==
  /\ \A c \in ClientIds :
       (clients[c].closeCalled \/ clients[c].state = "CLOSING") => ~clients[c].handlers
  /\ DisconnectEnded
       => /\ twitchClient = NULL
          /\ currentChannel = NoChannel
          /\ Cardinality(Disconnects(last.sent)) = IF windowOpen THEN 1 ELSE 0

\* C16's case: disconnect() threw, on a session whose connection had
\* dropped, and the disconnected status went out all the same.
C16_Witness ==
  /\ last.op = "DisconnectRequest"
  /\ last.arg = "rejected"
  /\ twitchClient = NULL
  /\ Cardinality(Disconnects(last.sent)) = 1
  /\ \E c \in ClientIds : ~clients[c].handlers

\* C17: say() is called only while the shared client is open; and what
\* sendMessage returns after a say() that failed differs from what it
\* returns without a connected session.
C17_SendFailuresDistinguishable ==
  [][/\ saying' > saying => SessionOpen
     /\ (last'.op = "SayResponse" /\ last'.arg = "error")
          => \A i \in DOMAIN last'.sent :
               last'.sent[i][1] = "return"
                 => last'.sent[i] # Returned(NotConnectedResult)]_vars

\* C18: when the open connection of the shared client drops, the run hands
\* the renderer one disconnected status with the reason tmi reports, and
\* nothing else: no error status.
C18_DropIsDisconnectedNotError ==
  [][\A c \in ClientIds :
       (twitchClient = c /\ clients[c].state = "OPEN"
        /\ last'.op = "ClientDropped" /\ last'.id = c)
         => last'.sent = ToRenderer(windowOpen,
                                    Status("disconnected", NoChannel, "reason"))]_vars

\* C18's case: the connection of the shared client dropped and the
\* disconnected status went out.
C18_Witness ==
  /\ last.op = "ClientDropped"
  /\ twitchClient = last.id
  /\ clients[last.id].state = "CLOSED"
  /\ last.sent = <<Status("disconnected", NoChannel, "reason")>>

\* C19: when connect() fails under the connectToChannel that awaits it, the
\* run hands the renderer one error status with the failure message and
\* leaves no shared client; and without a shared client a send is answered
\* "not connected" without a say(), and a disconnect request does nothing.
C19_ConnectFailureLeavesNoClient ==
  [][/\ \A c \in ClientIds :
          (clients[c].state = "CONNECTING" /\ clients[c].connWaiter > 0
           /\ last'.op = "ClientConnectFailed" /\ last'.id = c)
            => /\ twitchClient' = NULL
               /\ Count(last'.sent, Status("error", currentChannel, "connect"))
                    = IF windowOpen THEN 1 ELSE 0
     /\ (twitchClient = NULL /\ last'.op = "SendMessage")
          => last'.arg = "notconnected" /\ saying' = saying
     /\ (twitchClient = NULL /\ last'.op = "DisconnectRequest")
          => last'.sent = << >> /\ clients' = clients]_vars

\* C19's case: connect() failed, the error status went out and no shared
\* client is left.
C19_Witness ==
  /\ last.op = "ClientConnectFailed"
  /\ twitchClient = NULL
  /\ \E ch \in Channels : Count(last.sent, Status("error", ToLowerCase(ch), "connect")) = 1

RunningTimers == {i \in DOMAIN timers : timers[i]}

\* C20: at most one refresh interval is running, it is the one
\* refreshIntervalId names, and with refreshIntervalId null, as every stop
\* leaves it, none is running.
C20_AtMostOneTimer ==
  /\ Cardinality(RunningTimers) <= 1
  /\ refreshIntervalId # NULL => RunningTimers = {refreshIntervalId}
  /\ refreshIntervalId = NULL => RunningTimers = {}

\* C20's case: a second authorization succeeded, and started the timer
\* again, while the interval of the first was running.
C20_Witness ==
  /\ last.op = "UserResponse"
  /\ last.arg \in UserNames
  /\ nextEx = 3
  /\ refreshIntervalId # NULL
  /\ Len(timers) = 1

\* C21: after the run in which a refresh exchange failed on the network,
\* the interval is still running and the store still holds a refresh
\* token, so that the next tick sends a refresh exchange.
C21_NetworkFailureRetriedNextTick ==
  (last.op = "RefreshResponse" /\ last.arg = "neterr")
    => /\ refreshIntervalId # NULL
       /\ timers[refreshIntervalId]
       /\ ~NoRefreshToken(authObjs, currentAuthDetails)

ListeningServers == {s \in DOMAIN servers : servers[s]}

\* C22: at most one server is listening, and it is the one the module
\* variable names: a start while it listens creates none, a stop while
\* none listens changes nothing.
C22_AtMostOneListener ==
  /\ Cardinality(ListeningServers) <= 1
  /\ ListeningServers \subseteq {server}

\* C22's case: the login was requested a second time while the listener of
\* the first request was listening.
C22_Witness ==
  /\ last.op = "StartOAuthFlow"
  /\ nInputs = 2
  /\ Len(servers) = 1
  /\ ListeningServers = {1}

\* C23: once the window is destroyed no server is listening, no interval is
\* running, and no tmi client is open or connecting.
C23_TeardownReleasesAll ==
  ~windowOpen
    => /\ ListeningServers = {}
       /\ RunningTimers = {}
       /\ LiveClients = {}

\* C24: the access token and the refresh token of every credential object
\* in use come from one and the same exchange, and an empty store holds
\* the pair of no exchange.
C24_TokenPairFromOneExchange ==
  /\ \A i \in DOMAIN authObjs :
       \/ authObjs[i] = Unreachable
       \/ \E ex \in 1..(nextEx - 1) :
            /\ authObjs[i].token = AccessTok(ex)
            /\ authObjs[i].refreshToken = RefreshTok(ex)
  /\ currentAuthDetails # NULL => authObjs[currentAuthDetails] # Unreachable
  /\ currentAuthDetails = NULL <=> storedEx = 0

\* C24's case: a refresh was answered after a second authorization had
\* replaced the stored object, and its pair went into the new object whole.
C24_Witness ==
  /\ last.op = "RefreshResponse"
  /\ last.arg = "ok"
  /\ currentAuthDetails = 2
  /\ authObjs[2].token = AccessTok(3)
  /\ authObjs[2].refreshToken = RefreshTok(3)

\* C25: the client a connect request creates when its existence check is
\* confirmed logs in with the access token the store holds at that moment.
C25_ConnectsWithCurrentToken ==
  [][\A k \in Connects :
       (conn[k].pc = "exists" /\ conn'[k].pc = "connecting")
         => /\ currentAuthDetails # NULL
            /\ clients'[twitchClient'].token = authObjs[currentAuthDetails].token]_vars

\* The line a message or cheer run sent, the colour the provider had sent
\* with it, and the user it came from.
LineSent == last.op \in {"ClientMessage", "ClientCheer"} /\ last.sent # << >>
ProviderColor == last.arg[1]
LineUser == last.arg[2]
LineColor == last.sent[1][4]

\* "#" and three or six hex digits.
IsHexColor(color) ==
  /\ Len(color) \in {4, 7}
  /\ color[1] = HASH
  /\ \A i \in 2..Len(color) : color[i] \in HexDigits

\* The luminance of a colour, 0 for one that is missing or is not 3- or
\* 6-digit hex.
LuminanceOf(color) ==
  IF color = NoColor \/ ~IsHexColor(color) THEN 0 ELSE getLuminance(Expanded(color))

\* C26: the colour ensureReadableColor returns for the provider's colour is
\* the fallback when that colour's luminance is below the threshold, and
\* the colour itself otherwise.
C26_ReadableColor ==
  (LineSent /\ ProviderColor # NoColor)
    => LineColor = IF LuminanceOf(ProviderColor) < MIN_LUMINANCE * LuminanceScale
                     THEN FALLBACK_COLOR
                     ELSE ProviderColor

\* C27: the colour of a message or cheer line is the provider's colour when
\* there is one and it is not too dark, and otherwise the palette colour of
\* the user's name.
C27_DisplayColor ==
  LineSent
    => LineColor = IF /\ ProviderColor # NoColor
                      /\ ~TooDark(getLuminance(Expanded(ProviderColor)))
                     THEN ProviderColor
                     ELSE getColorFromUsername(LineUser)

RecognizedNotices == NoticeIds \ {"msg_timedout"}

C29_SideFetchFailureDoesNotBlock ==
  [][\A k \in Connects :
       (\/ conn[k].pc = "userId" /\ last'.op = "UserIdResponse" /\ last'.id = k
             /\ last'.arg = "none"
        \/ conn[k].pc = "emotes" /\ last'.op = "EmotesResponse" /\ last'.id = k)
         => /\ conn'[k].chan = conn[k].chan
            /\ conn'[k].auth = conn[k].auth
            /\ IF SessionOpen
                 THEN /\ conn'[k].pc = "disconnecting"
                      /\ clients'[twitchClient].state = "CLOSING"
                 ELSE /\ conn'[k].pc = "exists"
                      /\ last'.sent = ToRenderer(windowOpen,
                                        Status("connecting", conn[k].chan, "verify"))]_vars

\* C29's case: the identity lookup found nothing and the request is at the
\* existence check, the "verifying" status sent.
C29_Witness ==
  /\ last.op = "UserIdResponse"
  /\ last.arg = "none"
  /\ conn[last.id].pc = "exists"
  /\ \E ch \in Channels : last.sent = <<Status("connecting", ch, "verify")>>

\* The "not found" and "authentication required" error statuses among what
\* a run sent.
TerminalErrors(sent) ==
  {i \in DOMAIN sent : /\ Len(sent[i]) = 4
                       /\ sent[i][1] = "connection-status"
                       /\ sent[i][2] = "error"
                       /\ sent[i][4] \in {"notfound", "auth"}}

\* C30: the run of connect request k that sends the "not found" or the
\* "authentication required" error ends the request, and a request that
\* has ended stays ended: it makes no lookup and creates no client.
C30_TerminalErrors ==
  [][\A k \in Connects :
       /\ (/\ last'.op \in {"ConnectRequest", "UserIdResponse", "EmotesResponse",
                            "ExistsResponse"}
           /\ last'.id = k
           /\ TerminalErrors(last'.sent) # {})
            => conn'[k].pc = "done" /\ clients' = clients
       /\ conn[k].pc = "done" => conn'[k] = conn[k]]_vars

\* C30's case: a first connect request ended without a client, refused or
\* not found, and nothing more came of it until a second one arrived.
C30_Witness ==
  /\ last.op = "ConnectRequest"
  /\ last.id = 2
  /\ conn[1].pc = "done"
  /\ conn[2].pc = "userId"
  /\ clients = << >>

\* C31: every connection status a run sends, whichever of connecting,
\* connected, disconnected and error, the disconnected status of a dropped
\* connection included, carries the channel it refers to.
C31_StatusCarriesChannel ==
  \A i \in DOMAIN last.sent :
    LET ev == last.sent[i] IN
    (Len(ev) = 4 /\ ev[1] = "connection-status") => ev[3] # NoChannel

C33_ConnectRequestEnds ==
  \A k \in Connects :
    (k \in InFlight /\ windowOpen) ~> (conn[k].pc = "done" \/ ~windowOpen)

\* C34: between the runs of the event loop, while a refresh interval is
\* running the store holds a credential: every run that resets the store
\* (error redirect, failed code exchange, failed refresh) has also stopped
\* the interval when it ends.
C34_TimerImpliesCredential ==
  /\ RunningTimers # {} => currentAuthDetails # NULL
  /\ (AuthFailed \/ (last.op = "RefreshResponse" /\ last.arg # "ok"))
       => (currentAuthDetails = NULL /\ RunningTimers = {})

\* C34's case: a request with an error parameter reset the store while the
\* interval of an earlier login was running, and no interval runs any more.
C34_Witness ==
  /\ last.op = "HttpErrorRequest"
  /\ windowOpen
  /\ tick[1].pc = "none"
  /\ Len(timers) = 1
  /\ RunningTimers = {}
  /\ currentAuthDetails = NULL
  /\ Len(authObjs) = 1

\* C35: when a refresh exchange is answered and the store holds no
\* credential any more, the store stays empty; when it holds the credential
\* object of a later login, not the one the tick read its refresh token
\* from, that object's tokens are not replaced by the pair of the refresh.
C35_StaleRefreshWritesNothing ==
  [][\A t \in Ticks :
       (tick[t].pc = "refreshing" /\ tick'[t].pc = "done")
         => /\ currentAuthDetails = NULL
                 => (currentAuthDetails' = NULL /\ storedEx' = 0)
            /\ (currentAuthDetails # NULL /\ currentAuthDetails # tick[t].auth)
                 => \/ currentAuthDetails' = NULL
                    \/ authObjs'[currentAuthDetails'] = authObjs[currentAuthDetails]]_vars

\* C36: the channel of the connected status a client's handler sends is the
\* channel that client joined.
C36_ConnectedReportsOwnChannel ==
  (last.op = "ClientConnected" /\ last.sent # << >>)
    => last.sent[1] = Status("connected", clients[last.id].chan, "none")

\* C37: the store holds a credential exactly from a success callback until
\* the next reset; a connect request that arrives while it holds one passes
\* the credential gate: it is not refused with the "authentication
\* required" error, whatever name the identity lookup had returned.
C37_StoredCredentialPassesGate ==
  (last.op = "ConnectRequest" /\ currentAuthDetails # NULL)
    => /\ conn[last.id].pc = "userId"
       /\ Count(last.sent, Status("error", last.arg, "auth")) = 0

\* C38: once a channel fetch has come to its end, the channel emotes the
\* renderer was given last, by an update or on request, are those the last
\* fetch to end returned for its channel, and none when that fetch failed
\* or was answered 404.
C38_EmotesOfLastFetch ==
  (fetched # 0 /\ emoteUpdate # NoUpdate)
    => emoteUpdate.channelEmotes =
         IF fetch[fetched].outcome = "ok"
           THEN EmotesOf(fetch[fetched].id, fetched)
           ELSE << >>

====
